---- MODULE Spec2Model ----
(***************************************************************************)
(* The follow-me example (example/follow_me/follow_me.cpp): main() drives  *)
(* a vehicle through connect, readiness polls, arm, takeoff, follow-me     *)
(* start, a location-relay event loop, follow-me stop, and land.           *)
(*                                                                         *)
(* Every blocking library call is split in a call step and a return step,  *)
(* so that a command "in flight" is a state of the model.  `cmds` is the   *)
(* log of the commands the program sent to the vehicle, each with the      *)
(* result it returned ("PENDING" while the call has not returned).         *)
(***************************************************************************)
EXTENDS Integers, Sequences, FiniteSets

\* ---------------------------------------------------------------- bounds
MaxPolls == 2          \* failed readiness polls recorded per wait loop
MaxSamples == 2        \* samples the location feed may deliver
MaxFlightModeEvents == 2   \* flight-mode notifications delivered

\* ------------------------------------------------------------- constants
EXIT_SUCCESS == 0      \* `return 0`
EXIT_FAILURE == 1      \* exit(EXIT_FAILURE)
NotExited == -1        \* the process is still running

\* Result values of the three result types; the program only compares each
\* with SUCCESS.
ConnectionResults == {"SUCCESS", "SOCKET_ERROR"}
ActionResults == {"SUCCESS", "COMMAND_DENIED"}
FollowMeResults == {"SUCCESS", "NO_DEVICE"}
\* What set_target_location() reports back for one sample.
SetTargetResults == {"SUCCESS", "FAILURE"}

FlightModes == {"HOLD", "FOLLOW_ME"}

\* (lat, lon) samples of the feed, in millidegrees: (47.000, 8.500) and
\* (47.001, 8.501).
Samples == {<<47000, 8500>>, <<47001, 8501>>}

\* Variant: latitude and longitude exchanged.
TargetLocationSwapped(lat, lon) ==
  [latitude_deg |-> lon, longitude_deg |-> lat, absolute_altitude_m |-> 0,
   velocity_x_m_s |-> 0, velocity_y_m_s |-> 0, velocity_z_m_s |-> 0]

\* FollowMe::TargetLocation built by the relay callback:
\* {lat, lon, 0.0, 0.f, 0.f, 0.f}
TargetLocation(lat, lon) ==
  [latitude_deg |-> lat, longitude_deg |-> lon, absolute_altitude_m |-> 0,
   velocity_x_m_s |-> 0, velocity_y_m_s |-> 0, velocity_z_m_s |-> 0]

\* get_last_location() before any target was set.
NoLocation == TargetLocation(0, 0)

VARIABLES
  pc,             \* position of main()
  exit_status,    \* NotExited, or the process's exit status
  diag,           \* what the error-exit helper wrote to std::cerr
  conn_result,    \* result of add_udp_connection(), "NONE" before the call
  connected,      \* vehicle: dc.is_connected()
  healthy,        \* vehicle: telemetry().health_all_ok()
  polls,          \* failed polls of the current wait loop
  obs_connected,  \* main() has read is_connected() = true
  obs_healthy,    \* main() has read health_all_ok() = true
  cmds,           \* log of vehicle commands: [op, res]
  targets,        \* arguments of the set_target_location calls, in call order
  last_location,  \* vehicle: follow_me().get_last_location()
  fm_subscribed,  \* a flight-mode callback is registered
  fm_count,       \* flight-mode notifications delivered so far
  display,        \* what the flight-mode callback last printed
  provider,       \* the FakeLocationProvider allocated with new: "none"/"allocated"
  timer_pending,  \* the provider has work queued on the io_context
  feed_ended,     \* the feed stopped rescheduling itself (end of stream)
  cb,             \* the relay callback: "idle" / "in_call"
  delivered       \* samples the feed handed to the relay callback, in order

vars == <<pc, exit_status, diag, conn_result, connected, healthy, polls,
          obs_connected, obs_healthy, cmds, targets, last_location,
          fm_subscribed, fm_count, display, provider, timer_pending,
          feed_ended, cb, delivered>>

vehicle_vars == <<connected, healthy>>
poll_vars == <<polls, obs_connected, obs_healthy>>
observer_vars == <<fm_subscribed, fm_count, display>>
feed_vars == <<provider, timer_pending, feed_ended, cb, delivered>>
log_vars == <<cmds, targets, last_location>>

\* ------------------------------------------------------------ the phases
\* The mission phase main() is in, read off its position.
Phase ==
  CASE pc \in {"connect"} -> "Disconnected"
    [] pc \in {"wait_conn"} -> "Connecting"
    [] pc \in {"wait_health"} -> "Connected"
    [] pc \in {"arm", "arm_wait"} -> "Ready"
    [] pc \in {"fm_subscribe", "takeoff", "takeoff_wait"} -> "Armed"
    [] pc \in {"settle", "start", "start_wait"} -> "Airborne"
    [] pc \in {"loc_subscribe", "io_run"} -> "Following"
    [] pc \in {"stop", "stop_wait", "land", "land_wait"} -> "Landing"
    [] pc \in {"final_sleep", "returned", "exited"} -> "Terminated"

\* ----------------------------------------------------------- command log
Entry(op) == [op |-> op, res |-> "PENDING"]

Issue(op) == cmds' = Append(cmds, Entry(op))

PendingIdx(op) ==
  CHOOSE i \in DOMAIN cmds : cmds[i].op = op /\ cmds[i].res = "PENDING"

Resolve(op, r) == cmds' = [cmds EXCEPT ![PendingIdx(op)].res = r]

InFlight == {i \in DOMAIN cmds : cmds[i].res = "PENDING"}

\* ------------------------------------------------------ error-exit helpers
\* `next` is where main() continues when the helper returns.
\* Variant: the result is not looked at.
action_error_exit_never(result, message, next) ==
  /\ pc' = next
  /\ UNCHANGED <<exit_status, diag>>


\* Variant: a failure sends main() back to arm instead of ending it.
action_error_exit_retry(result, message, next) ==
  IF result # "SUCCESS"
    THEN /\ pc' = "arm"
         /\ diag' = <<message, result>>
         /\ UNCHANGED exit_status
    ELSE /\ pc' = next
         /\ UNCHANGED <<exit_status, diag>>

action_error_exit(result, message, next) ==
  IF result # "SUCCESS"
    THEN /\ pc' = "exited"
         /\ exit_status' = EXIT_FAILURE
         /\ diag' = <<message, result>>
    ELSE /\ pc' = next
         /\ UNCHANGED <<exit_status, diag>>

\* Variant: the result is not looked at.
follow_me_error_exit_never(result, message, next) ==
  /\ pc' = next
  /\ UNCHANGED <<exit_status, diag>>


\* Variant: a failure sends main() back to the takeoff instead of ending it.
follow_me_error_exit_restart(result, message, next) ==
  IF result # "SUCCESS"
    THEN /\ pc' = "takeoff"
         /\ diag' = <<message, result>>
         /\ UNCHANGED exit_status
    ELSE /\ pc' = next
         /\ UNCHANGED <<exit_status, diag>>

follow_me_error_exit(result, message, next) ==
  IF result # "SUCCESS"
    THEN /\ pc' = "exited"
         /\ exit_status' = EXIT_FAILURE
         /\ diag' = <<message, result>>
    ELSE /\ pc' = next
         /\ UNCHANGED <<exit_status, diag>>

\* Variant: the result is not looked at.
connection_error_exit_never(result, message, next) ==
  /\ pc' = next
  /\ UNCHANGED <<exit_status, diag>>

connection_error_exit(result, message, next) ==
  IF result # "SUCCESS"
    THEN /\ pc' = "exited"
         /\ exit_status' = EXIT_FAILURE
         /\ diag' = <<message, result>>
    ELSE /\ pc' = next
         /\ UNCHANGED <<exit_status, diag>>

\* ------------------------------------------------------------------ Init
Init ==
  /\ pc = "connect"
  /\ exit_status = NotExited
  /\ diag = << >>
  /\ conn_result = "NONE"
  /\ connected = FALSE
  /\ healthy = FALSE
  /\ polls = 0
  /\ obs_connected = FALSE
  /\ obs_healthy = FALSE
  /\ cmds = << >>
  /\ targets = << >>
  /\ last_location = NoLocation
  /\ fm_subscribed = FALSE
  /\ fm_count = 0
  /\ display = << >>
  /\ provider = "none"
  /\ timer_pending = FALSE
  /\ feed_ended = FALSE
  /\ cb = "idle"
  /\ delivered = << >>

\* --------------------------------------------------------------- vehicle
\* The vehicle's heartbeat is seen, or times out.
VehicleHeartbeat ==
  /\ exit_status = NotExited
  /\ connected' = ~connected
  /\ UNCHANGED <<pc, exit_status, diag, conn_result, healthy, poll_vars,
                 log_vars, observer_vars, feed_vars>>

\* The vehicle's health checks pass, or stop passing.
VehicleHealth ==
  /\ exit_status = NotExited
  /\ healthy' = ~healthy
  /\ UNCHANGED <<pc, exit_status, diag, conn_result, connected, poll_vars,
                 log_vars, observer_vars, feed_vars>>

\* ---------------------------------------------------------------- main()
\* dc.add_udp_connection(); connection_error_exit(conn_result, ...)
Connect ==
  /\ pc = "connect"
  /\ \E r \in ConnectionResults :
       /\ conn_result' = r
       /\ connection_error_exit(r, "Connection failed", "wait_conn")
  /\ UNCHANGED <<vehicle_vars, poll_vars, log_vars, observer_vars, feed_vars>>

\* One evaluation of `while (!dc.is_connected())` and, when it holds, the body.
PollConnected ==
  /\ pc = "wait_conn"
  /\ IF connected
       THEN /\ pc' = "wait_health"
            /\ obs_connected' = TRUE
            /\ polls' = 0
       ELSE /\ polls < MaxPolls
            /\ polls' = polls + 1
            /\ UNCHANGED <<pc, obs_connected>>
  /\ UNCHANGED <<exit_status, diag, conn_result, vehicle_vars, obs_healthy,
                 log_vars, observer_vars, feed_vars>>

\* Variant: the health loop is left without reading health_all_ok().
PollHealthSkipped ==
  /\ pc = "wait_health"
  /\ pc' = "arm"
  /\ polls' = 0
  /\ UNCHANGED <<exit_status, diag, conn_result, vehicle_vars, obs_connected,
                 obs_healthy, log_vars, observer_vars, feed_vars>>

\* One evaluation of `while (!device.telemetry().health_all_ok())`.
PollHealth ==
  /\ pc = "wait_health"
  /\ IF healthy
       THEN /\ pc' = "arm"
            /\ obs_healthy' = TRUE
            /\ polls' = 0
       ELSE /\ polls < MaxPolls
            /\ polls' = polls + 1
            /\ UNCHANGED <<pc, obs_healthy>>
  /\ UNCHANGED <<exit_status, diag, conn_result, vehicle_vars, obs_connected,
                 log_vars, observer_vars, feed_vars>>

\* device.action().arm() is called.
ArmCall ==
  /\ pc = "arm"
  /\ Issue("arm")
  /\ pc' = "arm_wait"
  /\ UNCHANGED <<exit_status, diag, conn_result, vehicle_vars, poll_vars,
                 targets, last_location, observer_vars, feed_vars>>

\* arm() returns; action_error_exit(arm_result, "Arming failed")
ArmReturn ==
  /\ pc = "arm_wait"
  /\ \E r \in ActionResults :
       /\ Resolve("arm", r)
       /\ action_error_exit(r, "Arming failed", "fm_subscribe")
  /\ UNCHANGED <<conn_result, vehicle_vars, poll_vars, targets, last_location,
                 observer_vars, feed_vars>>

\* device.telemetry().flight_mode_async(callback)
SubscribeFlightMode ==
  /\ pc = "fm_subscribe"
  /\ fm_subscribed' = TRUE
  /\ pc' = "takeoff"
  /\ UNCHANGED <<exit_status, diag, conn_result, vehicle_vars, poll_vars,
                 log_vars, fm_count, display, feed_vars>>

TakeoffCall ==
  /\ pc = "takeoff"
  /\ Issue("takeoff")
  /\ pc' = "takeoff_wait"
  /\ UNCHANGED <<exit_status, diag, conn_result, vehicle_vars, poll_vars,
                 targets, last_location, observer_vars, feed_vars>>


\* Variant: the sleep after takeoff is left out.
TakeoffReturnNoSettle ==
  /\ pc = "takeoff_wait"
  /\ \E r \in ActionResults :
       /\ Resolve("takeoff", r)
       /\ action_error_exit(r, "Takeoff failed", "start")
  /\ UNCHANGED <<conn_result, vehicle_vars, poll_vars, targets, last_location,
                 observer_vars, feed_vars>>

\* device.action().takeoff() returns; action_error_exit(takeoff_result, ...)
TakeoffReturn ==
  /\ pc = "takeoff_wait"
  /\ \E r \in ActionResults :
       /\ Resolve("takeoff", r)
       /\ action_error_exit(r, "Takeoff failed", "settle")
  /\ UNCHANGED <<conn_result, vehicle_vars, poll_vars, targets, last_location,
                 observer_vars, feed_vars>>

\* sleep_for(seconds(5)) after takeoff
SettleDelay ==
  /\ pc = "settle"
  /\ pc' = "start"
  /\ UNCHANGED <<exit_status, diag, conn_result, vehicle_vars, poll_vars,
                 log_vars, observer_vars, feed_vars>>

\* device.follow_me().start() is called.
StartCall ==
  /\ pc = "start"
  /\ Issue("start_follow")
  /\ pc' = "start_wait"
  /\ UNCHANGED <<exit_status, diag, conn_result, vehicle_vars, poll_vars,
                 targets, last_location, observer_vars, feed_vars>>

StartReturn ==
  /\ pc = "start_wait"
  /\ \E r \in FollowMeResults :
       /\ Resolve("start_follow", r)
       /\ follow_me_error_exit(r, "Failed to start FollowMe mode", "loc_subscribe")
  /\ UNCHANGED <<conn_result, vehicle_vars, poll_vars, targets, last_location,
                 observer_vars, feed_vars>>

\* boost::asio::io_context io;
\* (new FakeLocationProvider(io))->request_location_updates(callback)
RequestLocationUpdates ==
  /\ pc = "loc_subscribe"
  /\ provider' = "allocated"
  /\ timer_pending' = TRUE
  /\ pc' = "io_run"
  /\ UNCHANGED <<exit_status, diag, conn_result, vehicle_vars, poll_vars,
                 log_vars, observer_vars, feed_ended, cb, delivered>>

\* main() is inside io.run(): handlers queued on `io` run here and nowhere else.
io_running == pc = "io_run"

\* Variant: the newest sample is put first.
ForwardArgReordered(args, loc) == <<loc>> \o args

\* The arguments of the set_target_location calls, in call order.
ForwardArg(args, loc) == Append(args, loc)

\* Variant: the feed runs on a thread of its own, not inside io.run().
LocationCallbackDetached ==
  /\ provider = "allocated"
  /\ exit_status = NotExited
  /\ cb = "idle"
  /\ Len(delivered) < MaxSamples
  /\ \E s \in Samples :
       /\ delivered' = Append(delivered, s)
       /\ Issue("set_target_location")
       /\ targets' = ForwardArg(targets, TargetLocation(s[1], s[2]))
  /\ cb' = "in_call"
  /\ UNCHANGED <<pc, exit_status, diag, conn_result, vehicle_vars, poll_vars,
                 last_location, observer_vars, provider, timer_pending,
                 feed_ended>>

\* The feed's timer fires with the next sample: the callback
\* [&device](double lat, double lon) runs and calls set_target_location.
LocationCallback ==
  /\ io_running
  /\ timer_pending
  /\ cb = "idle"
  /\ Len(delivered) < MaxSamples
  /\ \E s \in Samples :
       /\ delivered' = Append(delivered, s)
       /\ Issue("set_target_location")
       /\ targets' = ForwardArg(targets, TargetLocation(s[1], s[2]))
  /\ cb' = "in_call"
  /\ UNCHANGED <<pc, exit_status, diag, conn_result, vehicle_vars, poll_vars,
                 last_location, observer_vars, provider, timer_pending,
                 feed_ended>>


\* Variant: the callback checks the result like the phase commands do.
SetTargetReturnChecked ==
  /\ cb = "in_call"
  /\ \E r \in SetTargetResults :
       /\ Resolve("set_target_location", r)
       /\ last_location' = IF r = "SUCCESS" THEN targets[Len(targets)]
                           ELSE last_location
       /\ follow_me_error_exit(r, "Failed to set target location", pc)
  /\ cb' = "idle"
  /\ UNCHANGED <<conn_result, vehicle_vars, poll_vars, targets, observer_vars,
                 provider, timer_pending, feed_ended, delivered>>

\* set_target_location() returns; the callback drops whatever it returned and
\* the feed re-arms its timer.
SetTargetReturn ==
  /\ cb = "in_call"
  /\ \E r \in SetTargetResults :
       /\ Resolve("set_target_location", r)
       /\ last_location' = IF r = "SUCCESS" THEN targets[Len(targets)]
                           ELSE last_location
  /\ cb' = "idle"
  /\ UNCHANGED <<pc, exit_status, diag, conn_result, vehicle_vars, poll_vars,
                 targets, observer_vars, provider, timer_pending, feed_ended,
                 delivered>>

\* The feed stops: its handler returns without re-arming the timer.
FeedEnd ==
  /\ io_running
  /\ timer_pending
  /\ cb = "idle"
  /\ timer_pending' = FALSE
  /\ feed_ended' = TRUE
  /\ UNCHANGED <<pc, exit_status, diag, conn_result, vehicle_vars, poll_vars,
                 log_vars, observer_vars, provider, cb, delivered>>

\* Variant: io.run() returns while a handler is still running.
IoRunReturnEarly ==
  /\ pc = "io_run"
  /\ pc' = "stop"
  /\ UNCHANGED <<exit_status, diag, conn_result, vehicle_vars, poll_vars,
                 log_vars, observer_vars, feed_vars>>

\* Variant: io.run() returns while the feed still has work queued.
IoRunReturnPending ==
  /\ pc = "io_run"
  /\ cb = "idle"
  /\ pc' = "stop"
  /\ UNCHANGED <<exit_status, diag, conn_result, vehicle_vars, poll_vars,
                 log_vars, observer_vars, feed_vars>>

\* io.run() returns: no handler is running and no work is left on `io`.
IoRunReturn ==
  /\ pc = "io_run"
  /\ cb = "idle"
  /\ ~timer_pending
  /\ pc' = "stop"
  /\ UNCHANGED <<exit_status, diag, conn_result, vehicle_vars, poll_vars,
                 log_vars, observer_vars, feed_vars>>

\* device.follow_me().stop() is called.
StopCall ==
  /\ pc = "stop"
  /\ Issue("stop_follow")
  /\ pc' = "stop_wait"
  /\ UNCHANGED <<exit_status, diag, conn_result, vehicle_vars, poll_vars,
                 targets, last_location, observer_vars, feed_vars>>

StopReturn ==
  /\ pc = "stop_wait"
  /\ \E r \in FollowMeResults :
       /\ Resolve("stop_follow", r)
       /\ follow_me_error_exit(r, "Failed to stop FollowMe mode", "land")
  /\ UNCHANGED <<conn_result, vehicle_vars, poll_vars, targets, last_location,
                 observer_vars, feed_vars>>

\* device.action().land() is called.
LandCall ==
  /\ pc = "land"
  /\ Issue("land")
  /\ pc' = "land_wait"
  /\ UNCHANGED <<exit_status, diag, conn_result, vehicle_vars, poll_vars,
                 targets, last_location, observer_vars, feed_vars>>

LandReturn ==
  /\ pc = "land_wait"
  /\ \E r \in ActionResults :
       /\ Resolve("land", r)
       /\ action_error_exit(r, "Landing failed", "final_sleep")
  /\ UNCHANGED <<conn_result, vehicle_vars, poll_vars, targets, last_location,
                 observer_vars, feed_vars>>

\* sleep_for(seconds(5)); "Finished..."; return 0
FinalSleep ==
  /\ pc = "final_sleep"
  /\ pc' = "returned"
  /\ exit_status' = EXIT_SUCCESS
  /\ UNCHANGED <<diag, conn_result, vehicle_vars, poll_vars, log_vars,
                 observer_vars, feed_vars>>

\* ------------------------------------------------------- status observer
\* Variant: the callback also sends a command to the vehicle.
FlightModeEffectIntrusive(flight_mode) ==
  /\ display' = <<flight_mode, last_location.latitude_deg,
                  last_location.longitude_deg>>
  /\ cmds' = Append(cmds, [op |-> "hold", res |-> "SUCCESS"])
  /\ UNCHANGED <<pc, exit_status, diag, conn_result, targets, last_location,
                 feed_vars>>

\* What the flight-mode callback does with a notification: it reads
\* get_last_location() and prints one line.
FlightModeEffect(flight_mode) ==
  /\ display' = <<flight_mode, last_location.latitude_deg,
                  last_location.longitude_deg>>
  /\ UNCHANGED <<pc, exit_status, diag, conn_result, log_vars, feed_vars>>


\* Variant: notifications reach the callback before it is registered.
FlightModeCallbackUnregistered ==
  /\ fm_count < MaxFlightModeEvents
  /\ fm_count' = fm_count + 1
  /\ \E flight_mode \in FlightModes : FlightModeEffect(flight_mode)
  /\ UNCHANGED <<vehicle_vars, poll_vars, fm_subscribed>>

\* The library delivers a flight-mode notification to the registered callback.
\* The callback is never unregistered and exit() does not destroy `dc`, so a
\* notification may still be delivered after exit() or `return` was reached.
FlightModeCallback ==
  /\ fm_subscribed
  /\ fm_count < MaxFlightModeEvents
  /\ fm_count' = fm_count + 1
  /\ \E flight_mode \in FlightModes : FlightModeEffect(flight_mode)
  /\ UNCHANGED <<vehicle_vars, poll_vars, fm_subscribed>>

\* ------------------------------------------------------------------ Next
Next ==
  \/ VehicleHeartbeat
  \/ VehicleHealth
  \/ Connect
  \/ PollConnected
  \/ PollHealth
  \/ ArmCall
  \/ ArmReturn
  \/ SubscribeFlightMode
  \/ TakeoffCall
  \/ TakeoffReturn
  \/ SettleDelay
  \/ StartCall
  \/ StartReturn
  \/ RequestLocationUpdates
  \/ LocationCallback
  \/ SetTargetReturn
  \/ FeedEnd
  \/ IoRunReturn
  \/ StopCall
  \/ StopReturn
  \/ LandCall
  \/ LandReturn
  \/ FinalSleep
  \/ FlightModeCallback

Spec == Init /\ [][Next]_vars

\* ------------------------------------------------------- derived notions
PhaseOrder == <<"arm", "takeoff", "start_follow", "stop_follow", "land">>

IsPhaseCmd(e) == e.op # "set_target_location"

\* The phase commands of the log, in the order they were issued.
PhaseCmds == SelectSeq(cmds, IsPhaseCmd)

Ops(log) == [i \in DOMAIN log |-> log[i].op]

Failed(i) == cmds[i].res \notin {"PENDING", "SUCCESS"}

RECURSIVE IsSubseq(_, _)
\* s is an order-preserving subsequence of t.
IsSubseq(s, t) ==
  IF s = << >> THEN TRUE
  ELSE IF t = << >> THEN FALSE
  ELSE IF Head(s) = Head(t) THEN IsSubseq(Tail(s), Tail(t))
  ELSE IsSubseq(s, Tail(t))

\* The (lat, lon) pairs of the set_target_location calls, in call order.
Forwarded == [i \in DOMAIN targets |->
                <<targets[i].latitude_deg, targets[i].longitude_deg>>]

\* ---------------------------------------------------------------- claims

\* C1: the phase commands arm, takeoff, start_follow, stop_follow, land are
\* issued in exactly that order, each at most once, and each only after the
\* previous one has returned SUCCESS.
C1_PhaseCommandOrder ==
  /\ Len(PhaseCmds) <= Len(PhaseOrder)
  /\ Ops(PhaseCmds) = SubSeq(PhaseOrder, 1, Len(PhaseCmds))
  /\ \A i \in 2..Len(PhaseCmds) : PhaseCmds[i - 1].res = "SUCCESS"

C1_Witness ==
  /\ Ops(PhaseCmds) = PhaseOrder
  /\ cmds[Len(cmds)].res = "SUCCESS"

\* C2 as stated: whenever any command sent to the vehicle returns a failure,
\* the phase is Terminated, the exit status is non-zero and that command is
\* the last one of the log.
C2_AnyFailureAborts ==
  /\ conn_result \notin {"NONE", "SUCCESS"} =>
       /\ Phase = "Terminated"
       /\ exit_status = EXIT_FAILURE
       /\ cmds = << >>
  /\ \A i \in DOMAIN cmds :
       Failed(i) => /\ Phase = "Terminated"
                    /\ exit_status = EXIT_FAILURE
                    /\ i = Len(cmds)

\* C2 (amended): whenever connect or one of the phase commands arm, takeoff,
\* start_follow, stop_follow, land returns a failure, the phase is
\* Terminated, the exit status is EXIT_FAILURE and no command follows the
\* failed one in the log; a failed set_target_location aborts nothing.
C2_PhaseFailureAborts ==
  /\ conn_result \notin {"NONE", "SUCCESS"} =>
       /\ Phase = "Terminated"
       /\ exit_status = EXIT_FAILURE
       /\ cmds = << >>
  /\ \A i \in DOMAIN cmds :
       (IsPhaseCmd(cmds[i]) /\ Failed(i)) =>
          /\ Phase = "Terminated"
          /\ exit_status = EXIT_FAILURE
          /\ diag # << >>
          /\ diag[2] = cmds[i].res
          /\ i = Len(cmds)

C2_Witness ==
  /\ Ops(cmds) = <<"arm">>
  /\ Failed(1)
  /\ exit_status = EXIT_FAILURE

\* C3: set_target_location is called only while the phase is Following:
\* every such call of the log comes after a start_follow that returned
\* SUCCESS and before any stop_follow or land, and one is in flight only in
\* Following.
C3_ForwardingWindow ==
  /\ \A i \in DOMAIN cmds :
       cmds[i].op = "set_target_location" =>
          /\ \E j \in 1..(i - 1) :
               cmds[j].op = "start_follow" /\ cmds[j].res = "SUCCESS"
          /\ \A k \in 1..(i - 1) : cmds[k].op \notin {"stop_follow", "land"}
  /\ (\E i \in InFlight : cmds[i].op = "set_target_location") =>
       Phase = "Following"
  /\ Phase \notin {"Following", "Landing", "Terminated"} => targets = << >>

C3_Witness ==
  /\ Phase = "Landing"
  /\ Len(targets) = MaxSamples
  /\ cmds[Len(cmds)].op = "stop_follow"

\* C4: the samples passed to set_target_location are, in call order, an
\* order-preserving subsequence of the samples the feed delivered.
C4_OrderPreserved == IsSubseq(Forwarded, delivered)

C4_Witness ==
  /\ Len(delivered) >= 2
  /\ delivered[1] # delivered[2]
  /\ Len(Forwarded) = Len(delivered)

\* C5: when main() has run to its end, the log holds arm, takeoff,
\* start_follow, then one set_target_location per delivered sample carrying
\* that sample's latitude and longitude with altitude and velocities 0, then
\* stop_follow and land, every phase command with result SUCCESS, and the
\* exit status is 0.
C5_NominalMission ==
  pc = "returned" =>
    /\ exit_status = EXIT_SUCCESS
    /\ Len(cmds) = Len(delivered) + 5
    /\ Ops(cmds) = <<"arm", "takeoff", "start_follow">>
                     \o [i \in DOMAIN delivered |-> "set_target_location"]
                     \o <<"stop_follow", "land">>
    /\ \A i \in DOMAIN cmds : IsPhaseCmd(cmds[i]) => cmds[i].res = "SUCCESS"
    /\ Len(targets) = Len(delivered)
    /\ \A i \in DOMAIN delivered :
         targets[i] = [latitude_deg |-> delivered[i][1],
                       longitude_deg |-> delivered[i][2],
                       absolute_altitude_m |-> 0,
                       velocity_x_m_s |-> 0,
                       velocity_y_m_s |-> 0,
                       velocity_z_m_s |-> 0]

C5_Witness ==
  /\ pc = "returned"
  /\ delivered = <<<<47000, 8500>>, <<47001, 8501>>>>

\* C6: at most one command to the vehicle is in flight at any time.
C6_SingleInFlight == Cardinality(InFlight) <= 1

C6_Witness ==
  /\ cb = "in_call"
  /\ Len(targets) = 2
  /\ InFlight = {Len(cmds)}

\* C7: the phase leaves Following only after the feed has ended; while the
\* feed has not ended, Following is followed by Following.
C7_FollowingUntilFeedEnds ==
  [][(Phase = "Following" /\ ~feed_ended') => Phase' = "Following"]_vars

C7_Witness ==
  /\ pc = "io_run"
  /\ ~feed_ended
  /\ Len(delivered) = MaxSamples
  /\ cb = "idle"

\* C8: arm is issued only after is_connected() and then health_all_ok() were
\* read true; inside the two wait loops no command has been issued and the
\* process has not exited, and a loop is left only when its predicate is
\* read true.
C8_ReadinessGating ==
  /\ [](cmds # << >> => obs_connected /\ obs_healthy)
  /\ [](obs_healthy => obs_connected)
  /\ [](pc \in {"wait_conn", "wait_health"} =>
          cmds = << >> /\ exit_status = NotExited /\ ~fm_subscribed)
  /\ [][(pc = "wait_conn" /\ pc' # "wait_conn") =>
          (connected /\ pc' = "wait_health")]_vars
  /\ [][(pc = "wait_health" /\ pc' # "wait_health") =>
          (healthy /\ pc' = "arm")]_vars

C8_Witness ==
  /\ pc = "arm_wait"
  /\ ~connected
  /\ ~healthy

\* C9: a flight-mode notification changes nothing but the observer's own
\* display: the position of main(), the exit status, the command log, the
\* vehicle's last location and the relay's state stay as they are.
C9_ObserverFrame ==
  [][fm_count' # fm_count =>
       UNCHANGED <<pc, exit_status, diag, conn_result, cmds, targets,
                   last_location, provider, timer_pending, feed_ended, cb,
                   delivered, obs_connected, obs_healthy>>]_vars

C9_Witness ==
  /\ fm_count = MaxFlightModeEvents
  /\ cb = "in_call"
  /\ display = <<"FOLLOW_ME", 47000, 8500>>

\* C10 as stated: the location-feed subscription object exists only while
\* the phase is Following; it is gone in Landing and in Terminated.
C10_SessionScoped ==
  /\ provider = "allocated" => Phase = "Following"
  /\ Phase \in {"Landing", "Terminated"} => provider = "none"

\* C11 as stated: the location callback and the flight-mode callback run only
\* while the phase is Following.
C11_CallbacksOnlyInFollowing ==
  [][(delivered' # delivered \/ fm_count' # fm_count) =>
       Phase = "Following"]_vars

\* C11 (amended): the location callback runs only inside io.run(), in phase
\* Following; the flight-mode callback runs only once it is registered (after
\* arm succeeded), in any of the phases Armed, Airborne, Following, Landing
\* and Terminated.
C11_CallbackWindows ==
  [][/\ delivered' # delivered => (pc = "io_run" /\ Phase = "Following")
     /\ fm_count' # fm_count =>
          /\ fm_subscribed
          /\ Phase \in {"Armed", "Airborne", "Following", "Landing",
                        "Terminated"}
          /\ \E i \in DOMAIN cmds :
               cmds[i].op = "arm" /\ cmds[i].res = "SUCCESS"]_vars

C11_Witness ==
  /\ Phase = "Airborne"
  /\ fm_count = MaxFlightModeEvents
  /\ display # << >>

\* main() keeps running, every call it makes returns, and the feed ends: the
\* scheduling under which termination is claimed.
Fairness ==
  /\ WF_vars(Connect)
  /\ WF_vars(PollConnected)
  /\ WF_vars(PollHealth)
  /\ WF_vars(ArmCall)
  /\ WF_vars(ArmReturn)
  /\ WF_vars(SubscribeFlightMode)
  /\ WF_vars(TakeoffCall)
  /\ WF_vars(TakeoffReturn)
  /\ WF_vars(SettleDelay)
  /\ WF_vars(StartCall)
  /\ WF_vars(StartReturn)
  /\ WF_vars(RequestLocationUpdates)
  /\ WF_vars(SetTargetReturn)
  /\ WF_vars(FeedEnd)
  /\ WF_vars(IoRunReturn)
  /\ WF_vars(StopCall)
  /\ WF_vars(StopReturn)
  /\ WF_vars(LandCall)
  /\ WF_vars(LandReturn)
  /\ WF_vars(FinalSleep)

LiveSpec == Init /\ [][Next]_vars /\ Fairness

\* connect and the five phase commands have all returned SUCCESS.
AllSucceeded ==
  /\ conn_result = "SUCCESS"
  /\ Ops(PhaseCmds) = PhaseOrder
  /\ \A i \in DOMAIN cmds : IsPhaseCmd(cmds[i]) => cmds[i].res = "SUCCESS"

\* C13: once connect has returned and, if it succeeded, the vehicle has been
\* read connected and healthy, the process eventually ends (phase Terminated,
\* exit status set); and whenever it has ended, its exit status is 0 if and
\* only if connect and all five phase commands returned SUCCESS.
C13_Termination ==
  /\ (conn_result \notin {"NONE", "SUCCESS"} \/ obs_healthy)
       ~> (Phase = "Terminated" /\ exit_status # NotExited)
  /\ [](exit_status # NotExited =>
          /\ exit_status \in {EXIT_SUCCESS, EXIT_FAILURE}
          /\ exit_status = EXIT_SUCCESS <=> AllSucceeded)

C13_Witness ==
  /\ pc = "returned"
  /\ exit_status = EXIT_SUCCESS
  /\ Len(delivered) = MaxSamples
  /\ \E i \in DOMAIN cmds : cmds[i].res = "FAILURE"

\* The set_target_location calls of the log, in call order.
SetTargetCmds == SelectSeq(cmds, LAMBDA e : e.op = "set_target_location")

\* C14: when a set_target_location call returns a failure, the sample is not
\* sent again, the phase stays Following, the process does not exit and the
\* feed stays subscribed, so the next sample is forwarded like any other;
\* every delivered sample is passed to set_target_location exactly once.
C14_DiscardAndContinue ==
  /\ [](Len(targets) = Len(delivered) /\ Len(SetTargetCmds) = Len(delivered))
  /\ [][(\E i \in DOMAIN cmds :
            /\ cmds[i].op = "set_target_location"
            /\ cmds[i].res = "PENDING"
            /\ i \in DOMAIN cmds'
            /\ cmds'[i].res \notin {"PENDING", "SUCCESS"}) =>
          /\ Phase' = "Following"
          /\ exit_status' = NotExited
          /\ targets' = targets
          /\ delivered' = delivered
          /\ Len(cmds') = Len(cmds)
          /\ timer_pending'
          /\ cb' = "idle"]_vars

C14_Witness ==
  /\ Len(SetTargetCmds) = 2
  /\ SetTargetCmds[1].res = "FAILURE"
  /\ SetTargetCmds[2].res = "SUCCESS"
  /\ targets[1] # targets[2]
  /\ Phase = "Following"

\* C15: stop_follow is issued only after the feed has ended and has no work
\* left queued; it is issued before land; and once it is issued no further
\* sample is delivered or passed to set_target_location.
C15_LeavingFollowing ==
  /\ [](\A i \in DOMAIN cmds :
          cmds[i].op = "stop_follow" =>
             /\ feed_ended
             /\ ~timer_pending
             /\ cb = "idle"
             /\ \A k \in DOMAIN cmds :
                  /\ cmds[k].op = "land" => k > i
                  /\ cmds[k].op = "set_target_location" =>
                       (k < i /\ cmds[k].res # "PENDING"))
  /\ [][(\E i \in DOMAIN cmds : cmds[i].op = "stop_follow") =>
          (targets' = targets /\ delivered' = delivered)]_vars

C15_Witness ==
  /\ Ops(cmds) = <<"arm", "takeoff", "start_follow", "set_target_location",
                   "stop_follow", "land">>
  /\ feed_ended

\* C16: when add_udp_connection() returns anything but SUCCESS, the process
\* has exited with EXIT_FAILURE from phase Disconnected: no poll of
\* is_connected() or health_all_ok() was made, no flight-mode callback was
\* registered, and no command was issued.
C16_ConnectionFailure ==
  conn_result \notin {"NONE", "SUCCESS"} =>
    /\ pc = "exited"
    /\ Phase = "Terminated"
    /\ exit_status = EXIT_FAILURE
    /\ diag = <<"Connection failed", conn_result>>
    /\ polls = 0
    /\ ~obs_connected
    /\ ~obs_healthy
    /\ ~fm_subscribed
    /\ fm_count = 0
    /\ cmds = << >>
    /\ targets = << >>
    /\ provider = "none"

C16_Witness ==
  /\ conn_result = "SOCKET_ERROR"
  /\ exit_status = EXIT_FAILURE
  /\ connected

\* The phases in mission order.
PhaseSeq == <<"Disconnected", "Connecting", "Connected", "Ready", "Armed",
              "Airborne", "Following", "Landing", "Terminated">>

PhaseRank(p) == CHOOSE i \in DOMAIN PhaseSeq : PhaseSeq[i] = p

\* C17: every step keeps the phase, moves it to the next phase of the order
\* Disconnected, Connecting, Connected, Ready, Armed, Airborne, Following,
\* Landing, Terminated, or jumps to Terminated; a jump that skips phases
\* happens only with exit status EXIT_FAILURE; Terminated is never left and
\* no command is issued in it.
C17_PhaseProgression ==
  /\ [](\E i \in DOMAIN PhaseSeq : PhaseSeq[i] = Phase)
  /\ [][\/ Phase' = Phase
        \/ PhaseRank(Phase') = PhaseRank(Phase) + 1
        \/ /\ Phase' = "Terminated"
           /\ exit_status' = EXIT_FAILURE
           /\ InFlight' = {}]_vars
  /\ [][Phase = "Terminated" =>
          (Phase' = "Terminated" /\ cmds' = cmds /\ targets' = targets)]_vars

C17_Witness ==
  /\ pc = "returned"
  /\ Len(cmds) = Len(PhaseOrder) + MaxSamples

\* C18: start_follow is issued only from the position after the settle
\* sleep, which is entered only from the sleep, which is entered only when
\* takeoff has returned SUCCESS; during the sleep the phase is Airborne and
\* no command is issued or in flight.
C18_SettleDelay ==
  /\ [](pc = "settle" =>
          /\ Phase = "Airborne"
          /\ InFlight = {}
          /\ cmds[Len(cmds)] = [op |-> "takeoff", res |-> "SUCCESS"])
  /\ [][pc = "settle" => cmds' = cmds]_vars
  /\ [][(pc' = "settle" /\ pc # "settle") => pc = "takeoff_wait"]_vars
  /\ [][(pc' = "start" /\ pc # "start") => pc = "settle"]_vars
  /\ [][(Len(cmds') > Len(cmds)
          /\ cmds'[Len(cmds')].op = "start_follow") => pc = "start"]_vars

C18_Witness ==
  /\ pc = "settle"
  /\ fm_count = MaxFlightModeEvents

\* Number of calls of `op` in the log.
Calls(op) == Cardinality({i \in DOMAIN cmds : cmds[i].op = op})

\* C19: connect and each of arm, takeoff, start_follow, stop_follow, land are
\* invoked at most once: main() never returns to the connect call, no phase
\* command occurs twice in the log, a failed phase command is the last entry
\* of the log, and after a failed stop_follow there is no land.
C19_NoRetry ==
  /\ [][pc # "connect" => pc' # "connect"]_vars
  /\ [][conn_result # "NONE" => conn_result' = conn_result]_vars
  /\ [](\A i \in DOMAIN PhaseOrder : Calls(PhaseOrder[i]) <= 1)
  /\ [](\A i \in DOMAIN cmds :
          (IsPhaseCmd(cmds[i]) /\ Failed(i)) => i = Len(cmds))
  /\ []((\E i \in DOMAIN cmds : cmds[i].op = "stop_follow" /\ Failed(i)) =>
          Calls("land") = 0)

C19_Witness ==
  /\ cmds # << >>
  /\ cmds[Len(cmds)].op = "stop_follow"
  /\ Failed(Len(cmds))
  /\ exit_status = EXIT_FAILURE
  /\ Len(targets) = MaxSamples

====
